---- MODULE Spec2Model ----
(***************************************************************************)
(* Model of the Uniden digital backend of Hamlib                           *)
(* (uniden/uniden_digital.c): the serial transaction engine                *)
(* uniden_digital_transaction and its caller uniden_digital_get_info.      *)
(*                                                                         *)
(* A byte is a one-character string; the NUL byte is the empty string.     *)
(* A buffer is a sequence of BUFSZ bytes; C index i is position i+1.       *)
(* A pointer that may be NULL is a sequence: <<>> is NULL, <<s>> points    *)
(* to the string s.                                                        *)
(***************************************************************************)
EXTENDS Integers, Sequences, FiniteSets, TLC

\* ------------------------------------------------------------------------
\* Program constants
\* ------------------------------------------------------------------------

\* #define BUFSZ 64
BUFSZ == 64

\* enum rig_errcode_e (hamlib/rig.h); the code returns their negations
RIG_OK == 0
RIG_EINVAL == 1
RIG_ETIMEOUT == 5
RIG_EIO == 6
RIG_EPROTO == 8

NUL == ""
CR == "\r"
LF == "\n"
SP == " "

\* #define EOM "\r"
EOM == <<CR>>

NULL == <<>>

\* ------------------------------------------------------------------------
\* Bounds of the model
\* ------------------------------------------------------------------------

\* largest configured rigport.retry
MaxRetry == 2

\* ------------------------------------------------------------------------
\* Inputs: callers' arguments and what the serial line can deliver
\* ------------------------------------------------------------------------

OK_EOM == <<"O", "K", CR>>
NG_EOM == <<"N", "G", CR>>
ORER_EOM == <<"O", "R", "E", "R", CR>>
ERR_EOM == <<"E", "R", "R", CR>>

\* "STS" EOM and "MDL" EOM, the commands of uniden_digital_get_info
STS_EOM == <<"S", "T", "S", CR>>
MDL_EOM == <<"M", "D", "L", CR>>

\* cmdstr arguments: NULL (read only), "STS\r", "SQ\r"
Commands == {NULL, << <<"S", "T", "S", CR>> >>, << <<"S", "Q", CR>> >>}

\* replystr arguments: NULL, "+", "SI"
ReplyPrefixes == {NULL, << <<"+">> >>, << <<"S", "I">> >>}

\* Byte strings the scanner (or line noise) can put on the wire before the
\* read ends: acknowledgements, data replies, replies cut short by the
\* timeout, and a reply that starts with a NUL byte.  CR only ever ends one.
\* "SI BC250D,0000000000,104\r", the status reply of the comment at line 223
StatusReply ==
    <<"S", "I", SP, "B", "C", "2", "5", "0", "D", ",",
      "0", "0", "0", "0", "0", "0", "0", "0", "0", "0", ",",
      "1", "0", "4", CR>>

\* "VR1.00\r", the model reply of the comment at line 233
ModelReply == <<"V", "R", "1", ".", "0", "0", CR>>

\* a line longer than any buffer of the program: BUFSZ characters and CR
LongReply == [i \in 1..(BUFSZ + 1) |-> IF i <= BUFSZ THEN "x" ELSE CR]

\* the longest line that fits a buffer of BUFSZ/2 bytes with its NUL
FullReply == [i \in 1..(BUFSZ \div 2 - 1) |-> IF i < BUFSZ \div 2 - 1 THEN "y" ELSE CR]

WireReplies ==
    { OK_EOM, NG_EOM, ORER_EOM, ERR_EOM,
      <<"S", "T", "7", CR>>, <<"S", "I", "7", CR>>, <<"S", CR>>,
      <<"+", "5", CR>>, <<"X", "Y", CR>>,
      <<"S", "T", "7", "8">>, <<"S">>,
      <<NUL, "S", CR>>,
      StatusReply, ModelReply, LongReply, FullReply }

\* What a read of uninitialised or foreign memory can yield
UndefBytes == {CR, "#"}

\* ------------------------------------------------------------------------
\* C library helpers
\* ------------------------------------------------------------------------

Min(a, b) == IF a < b THEN a ELSE b

\* strlen(data): index of the first NUL byte
Strlen(mem) ==
    LET nuls == {i \in 1..Len(mem) : mem[i] = NUL}
    IN  IF nuls = {} THEN Len(mem)
        ELSE (CHOOSE i \in nuls : \A j \in nuls : i <= j) - 1

\* the C string held in the buffer
CStr(mem) == SubSeq(mem, 1, Strlen(mem))

\* memset(data, 0, n)
Memset(mem, n) == [i \in 1..Len(mem) |-> IF i <= n THEN NUL ELSE mem[i]]

\* strcmp(a, b): 0 when equal, non-zero otherwise (the sign is never used)
Strcmp(a, b) == IF a = b THEN 0 ELSE 1

\* strchr(s, c) == NULL; strchr also finds the terminating NUL of s
StrchrIsNull(s, c) == ~(c = NUL \/ \E i \in 1..Len(s) : s[i] = c)

\* ------------------------------------------------------------------------
\* Transport (serial.h / iofunc): flush, write_block, read_string
\* ------------------------------------------------------------------------

\* read_string(port, rxbuffer, rxmax, stopset): reads until a stop character
\* or until rxmax-1 bytes are stored (rxmax is a size_t: rxmax = 0 wraps and
\* bounds nothing), NUL-terminates, returns the count; or fails with a
\* negative code.  A read that got no character is a timeout (lines 90-91:
\* "RIG_ETIMEOUT - if timeout expires without any characters received").
ReadCount(wire, rxmax) ==
    IF rxmax = 0 THEN Len(wire) ELSE Min(Len(wire), rxmax - 1)

ReadResults(rxmax) ==
    { [ret |-> ReadCount(w, rxmax), bytes |-> SubSeq(w, 1, ReadCount(w, rxmax))]
        : w \in {x \in WireReplies : ReadCount(x, rxmax) > 0} }
    \cup { [ret |-> -RIG_ETIMEOUT, bytes |-> <<>>], [ret |-> -RIG_EIO, bytes |-> <<>>] }

\* the buffer after read_string stored bytes and the terminating NUL
Store(mem, bytes) ==
    [i \in 1..Len(mem) |->
        IF i <= Len(bytes) THEN bytes[i]
        ELSE IF i = Len(bytes) + 1 THEN NUL
        ELSE mem[i]]

\* the bytes from data[0] to the end of the buffer data points o bytes into
View(m, o) == SubSeq(m, o + 1, Len(m))

\* the buffer with the bytes from data[0] on replaced by v
Put(m, o, v) ==
    [i \in 1..Len(m) |-> IF i > o /\ i - o <= Len(v) THEN v[i - o] ELSE m[i]]

\* buf[i] = b
Poke(m, i, b) == [j \in 1..Len(m) |-> IF j = i + 1 THEN b ELSE m[j]]

\* write_block(port, cmdstr, strlen(cmdstr)): RIG_OK or an I/O error
WriteResults == {RIG_OK, -RIG_EIO}

\* ------------------------------------------------------------------------
\* State
\* ------------------------------------------------------------------------

VARIABLES
    hold_decode,   \* rig->state.hold_decode
    retry,         \* rig->state.rigport.retry
    pc,            \* position in uniden_digital_transaction
    cmdstr,        \* argument cmdstr (NULL or <<string>>)
    replystr,      \* argument / local replystr (NULL or <<string>>)
    data,          \* which buffer data points to: "NULL", "caller", "replybuf",
                   \* "infobuf"
    off,           \* how many bytes into that buffer data points
    datasize,      \* *datasize (reply_len when the argument is NULL)
    mem,           \* the bytes of the buffer data points into
    retry_read,    \* local retry_read
    retval,        \* local retval
    ops,           \* transport calls made by the current call, in order
    oob,           \* a byte was written outside the buffer
    gi,            \* uniden_digital_get_info: its position, info_len, what it
                   \* returned, and how its status transaction ended (its
                   \* return value, the length and the bytes of its reply)
    first          \* when a call without a buffer is repeated with one: what
                   \* the call without a buffer returned and its transport calls

vars == <<hold_decode, retry, pc, cmdstr, replystr, data, off, datasize, mem,
          retry_read, retval, ops, oob, gi, first>>

\* one transport call: its result, the bytes it moved, the capacity handed
\* to a read, and the value of hold_decode while it ran
Op(name, ret, bytes, cap) ==
    [op |-> name, ret |-> ret, bytes |-> bytes, cap |-> cap, hold |-> hold_decode]

Fill(b) == [i \in 1..BUFSZ |-> b]

\* mutant: the two lengths are set to the size of the whole buffer
InfoCap_Whole == BUFSZ

\* line 216: info_len=BUFSZ/2, vrinfo_len=BUFSZ/2
InfoCap == BUFSZ \div 2

\* uniden_digital_get_info not running
GiIdle == [pc |-> "none", info_len |-> InfoCap, result |-> NULL, sts |-> <<>>]

Init ==
    /\ hold_decode = 0
    /\ retry \in 0..MaxRetry
    /\ pc = "idle"
    /\ cmdstr = NULL
    /\ replystr = NULL
    /\ data = "NULL"
    /\ off = 0
    /\ datasize = BUFSZ
    /\ mem = Fill(NUL)
    /\ retry_read = 0
    /\ retval = RIG_OK
    /\ ops = <<>>
    /\ oob = FALSE
    /\ gi = GiIdle
    /\ first = <<>>

\* ------------------------------------------------------------------------
\* Reply classification (lines 133-202), as the code computes it
\* ------------------------------------------------------------------------

\* line 134: strchr(EOM, data[strlen(data)-1]) == NULL
NotTerminated(lastc) == StrchrIsNull(EOM, lastc)

\* mutant: the test is !strcmp(data, "OK" EOM)
OkBranch_Equal(s) == Strcmp(s, OK_EOM) = 0

\* line 142: if (strcmp(data, "OK" EOM))
OkBranch(s) == Strcmp(s, OK_EOM) # 0

\* line 152: if (strcmp(data, "NG" EOM) || strcmp(data, "ORER" EOM))
NgBranch(s) == Strcmp(s, NG_EOM) # 0 \/ Strcmp(s, ORER_EOM) # 0

\* line 159: if (strcmp(data, "ERR" EOM))
ErrBranch(s) == Strcmp(s, ERR_EOM) # 0

\* lines 168-171: data[strlen(data)-1] = '\0'
StripTerm(m) ==
    IF Strlen(m) > 0
    THEN [m EXCEPT ![Strlen(m)] = NUL]
    ELSE [m EXCEPT ![1] = NUL]

\* line 175: !memcmp(cmdstr, "SQ", 2) && (replystr[0] == '-' || replystr[0] == '+')
\* (the code tests neither pointer for NULL before it dereferences them;
\* every reply returns at line 145 or 156, so this line is never reached)
SquelchBranch(cmd, rpl) ==
    /\ cmd # NULL /\ Len(cmd[1]) >= 2 /\ SubSeq(cmd[1], 1, 2) = <<"S", "Q">>
    /\ rpl # NULL /\ Len(rpl[1]) >= 1 /\ rpl[1][1] \in {"-", "+"}

\* lines 181-182: replystr defaults to cmdstr
Prefix(cmd, rpl) == IF rpl = NULL THEN cmd ELSE rpl

\* byte i (from 0) of a C string, NUL at and past its end
At(s, i) == IF i < Len(s) THEN s[i + 1] ELSE NUL

\* lines 187-188: replystr && replystr[0] &&
\*   (data[0] != replystr[0] || (replystr[1] && data[1] != replystr[1]))
PrefixMismatch(p, s) ==
    /\ p # NULL
    /\ At(p[1], 0) # NUL
    /\ \/ At(s, 0) # At(p[1], 0)
       \/ (At(p[1], 1) # NUL /\ At(s, 1) # At(p[1], 1))

\* mutant: the budget test is off by one
MayRetry_OffByOne(n, max) == n <= max

\* mutant: a failure is never retried
MayRetry_Never(n, max) == FALSE

\* lines 127, 136, 195: if (retry_read++ < rig->state.rigport.retry)
MayRetry(n, max) == n < max

\* The checks after a successful read.  Result: where control goes next
\* ("transaction_write" or "transaction_quit"), the return value, whether
\* retry_read was post-incremented, the buffer, and the local replystr.
Classify(m, lastc, cmd, rpl, n, max) ==
    LET s == CStr(m)
        retryOrFail == [next |-> IF MayRetry(n, max) THEN "transaction_write"
                                 ELSE "transaction_quit",
                        retval |-> -RIG_EPROTO, counted |-> TRUE, mem |-> m,
                        replystr |-> rpl]
        quit(r, mm, p) == [next |-> "transaction_quit", retval |-> r,
                           counted |-> FALSE, mem |-> mm, replystr |-> p]
    IN  IF NotTerminated(lastc) THEN retryOrFail
        ELSE IF OkBranch(s) THEN quit(RIG_OK, m, rpl)
        ELSE IF NgBranch(s) THEN quit(-RIG_EPROTO, m, rpl)
        ELSE IF ErrBranch(s) THEN quit(-RIG_EINVAL, m, rpl)
        ELSE LET m2 == StripTerm(m)
                 s2 == CStr(m2)
                 p == Prefix(cmd, rpl)
             IN  IF SquelchBranch(cmd, rpl) THEN quit(RIG_OK, m2, rpl)
                 ELSE IF PrefixMismatch(p, s2)
                      THEN [retryOrFail EXCEPT !.mem = m2, !.replystr = p]
                      ELSE quit(RIG_OK, m2, p)

\* ------------------------------------------------------------------------
\* uniden_digital_transaction, one action per step
\* ------------------------------------------------------------------------

\* mutant: the entry leaves hold_decode as it finds it
Enter_HoldNotSet(c, r, d, o, size, m) ==
    /\ cmdstr' = c
    /\ replystr' = r
    /\ data' = d
    /\ off' = o
    /\ datasize' = size
    /\ mem' = m
    /\ retry_read' = 0
    /\ hold_decode' = hold_decode
    /\ ops' = <<>>
    /\ pc' = "transaction_write"
    /\ UNCHANGED <<retry, retval>>

\* entry, lines 96-106: arguments, retry_read = 0, rs->hold_decode = 1
Enter(c, r, d, o, size, m) ==
    /\ cmdstr' = c
    /\ replystr' = r
    /\ data' = d
    /\ off' = o
    /\ datasize' = size
    /\ mem' = m
    /\ retry_read' = 0
    /\ hold_decode' = 1
    /\ ops' = <<>>
    /\ pc' = "transaction_write"
    /\ UNCHANGED <<retry, retval>>

\* a call from outside this file: the caller passes cmdstr, replystr and
\* either a buffer of BUFSZ bytes with *datasize = BUFSZ or no buffer at all
Call ==
    /\ pc = "idle"
    /\ \E c \in Commands, r \in ReplyPrefixes, d \in {"NULL", "caller"},
          fill \in {NUL, "#"} :
          Enter(c, r, d, 0, BUFSZ, Fill(fill))
    /\ oob' = FALSE
    /\ gi' = GiIdle
    /\ UNCHANGED first

\* mutant: the if (cmdstr) test is dropped and nothing is written
SerialFlush_NoWrite ==
    /\ pc = "transaction_write"
    /\ ops' = Append(ops, Op("flush", RIG_OK, <<>>, 0))
    /\ pc' = "read"
    /\ UNCHANGED <<hold_decode, retry, cmdstr, replystr, data, off, datasize,
                   mem, retry_read, retval, oob, gi, first>>

\* line 110: serial_flush(&rs->rigport)
SerialFlush ==
    /\ pc = "transaction_write"
    /\ ops' = Append(ops, Op("flush", RIG_OK, <<>>, 0))
    /\ pc' = IF cmdstr # NULL THEN "write" ELSE "read"
    /\ UNCHANGED <<hold_decode, retry, cmdstr, replystr, data, off, datasize,
                   mem, retry_read, retval, oob, gi, first>>

\* mutant: a failed write starts the attempt over
AfterWriteFail_Retry == "transaction_write"

\* line 115: goto transaction_quit, where a failed write_block goes
AfterWriteFail == "transaction_quit"

\* lines 112-116: write_block(&rs->rigport, cmdstr, strlen(cmdstr))
WriteBlock ==
    /\ pc = "write"
    /\ \E r \in WriteResults :
          /\ retval' = r
          /\ ops' = Append(ops, Op("write", r, cmdstr[1], 0))
          /\ pc' = IF r # RIG_OK THEN AfterWriteFail ELSE "read"
    /\ UNCHANGED <<hold_decode, retry, cmdstr, replystr, data, off, datasize,
                   mem, retry_read, oob, gi, first>>

\* lines 119-131: default the buffer, memset, read_string, retry on failure
ReadString ==
    /\ pc = "read"
    /\ data' = IF data = "NULL" THEN "replybuf" ELSE data
    /\ \E r \in ReadResults(datasize) :
          /\ retval' = r.ret
          /\ ops' = Append(ops, Op("read", r.ret, r.bytes, datasize))
          /\ IF r.ret < 0
             THEN /\ mem' = Put(mem, off, Memset(View(mem, off), datasize))
                  /\ oob' = (oob \/ off + datasize > Len(mem))
                  /\ retry_read' = retry_read + 1
                  /\ pc' = IF MayRetry(retry_read, retry) THEN "transaction_write"
                           ELSE "transaction_quit"
                  /\ UNCHANGED datasize
             ELSE /\ mem' = Put(mem, off,
                                Store(Memset(View(mem, off), datasize), r.bytes))
                  /\ oob' = (oob \/ off + datasize > Len(mem)
                                 \/ off + Len(r.bytes) + 1 > Len(mem))
                  /\ datasize' = r.ret
                  /\ pc' = "check"
                  /\ UNCHANGED retry_read
    /\ UNCHANGED <<hold_decode, retry, cmdstr, replystr, off, gi, first>>

\* data[strlen(data)-1] at line 134; with an empty string the index is -1:
\* the byte before data[0], which belongs to the buffer only when data
\* points into it, and is anything otherwise
LastChars(m, o) ==
    IF Strlen(View(m, o)) > 0 THEN {View(m, o)[Strlen(View(m, o))]}
    ELSE IF o > 0 THEN {m[o]}
    ELSE UndefBytes

\* lines 133-202: terminator check, classification, prefix check
CheckReply ==
    /\ pc = "check"
    /\ \E lastc \in LastChars(mem, off) :
          LET c == Classify(View(mem, off), lastc, cmdstr, replystr, retry_read, retry)
          IN  /\ pc' = c.next
              /\ retval' = IF c.next = "transaction_quit" THEN c.retval ELSE retval
              /\ retry_read' = IF c.counted THEN retry_read + 1 ELSE retry_read
              /\ mem' = Put(mem, off, c.mem)
              /\ replystr' = c.replystr
    /\ UNCHANGED <<hold_decode, retry, cmdstr, data, off, datasize, ops, oob, gi, first>>

\* mutant: the error paths return without passing the flag reset
TransactionQuit_ErrorsSkipReset ==
    /\ pc = "transaction_quit"
    /\ hold_decode' = IF retval = RIG_OK THEN 0 ELSE hold_decode
    /\ pc' = "returned"
    /\ UNCHANGED <<retry, cmdstr, replystr, data, off, datasize, mem, retry_read,
                   retval, ops, oob, gi, first>>

\* lines 203-205: transaction_quit: rs->hold_decode = 0; return retval
TransactionQuit ==
    /\ pc = "transaction_quit"
    /\ hold_decode' = 0
    /\ pc' = "returned"
    /\ UNCHANGED <<retry, cmdstr, replystr, data, off, datasize, mem, retry_read,
                   retval, ops, oob, gi, first>>

\* ------------------------------------------------------------------------
\* uniden_digital_get_info
\* ------------------------------------------------------------------------

\* lines 213-219: the status transaction on the static infobuf, which holds
\* zeroes or what an earlier call left, with info_len = BUFSZ/2
GetInfo ==
    /\ pc = "idle"
    /\ \E fill \in {NUL, "#"} :
          Enter(<<STS_EOM>>, NULL, "infobuf", 0, InfoCap, Fill(fill))
    /\ oob' = FALSE
    /\ gi' = [GiIdle EXCEPT !.pc = "sts"]
    /\ UNCHANGED first

\* mutant: the test of the status length is left out
TooShort_Never(len) == FALSE

\* line 225: if (info_len < 4)
TooShort(len) == len < 4

\* lines 228-229: if (info_len >= BUFSZ) info_len = BUFSZ-1
Clamp(len) == IF len >= BUFSZ THEN BUFSZ - 1 ELSE len

\* lines 220-234: give up after a failed or short status reply; otherwise
\* terminate it and start the model transaction behind it
GetInfoStatus ==
    /\ pc = "returned"
    /\ gi.pc = "sts"
    /\ UNCHANGED first
    /\ LET summary == [ret |-> retval, len |-> datasize,
                       reply |-> SubSeq(mem, 1, Min(datasize, Len(mem)))]
       IN  IF retval # RIG_OK \/ TooShort(datasize)
           THEN /\ gi' = [gi EXCEPT !.pc = "done", !.result = NULL,
                                    !.info_len = datasize, !.sts = <<summary>>]
                /\ UNCHANGED <<hold_decode, retry, pc, cmdstr, replystr, data, off,
                               datasize, mem, retry_read, retval, ops, oob>>
           ELSE /\ Enter(<<MDL_EOM>>, NULL, "infobuf", Clamp(datasize),
                         InfoCap, Poke(mem, Clamp(datasize), NUL))
                /\ gi' = [gi EXCEPT !.pc = "mdl", !.info_len = Clamp(datasize),
                                    !.sts = <<summary>>]
                /\ UNCHANGED oob

\* lines 235-245: "\n " over the start of the model reply, or the status
\* reply terminated again when the model transaction failed
AfterModel(m, n, ret) ==
    IF ret = RIG_OK THEN Poke(Poke(m, n, LF), n + 1, SP) ELSE Poke(m, n, NUL)

\* lines 235-248: return infobuf+3
GetInfoModel ==
    /\ pc = "returned"
    /\ gi.pc = "mdl"
    /\ UNCHANGED first
    /\ mem' = AfterModel(mem, gi.info_len, retval)
    /\ oob' = (oob \/ (retval = RIG_OK /\ gi.info_len + 1 >= Len(mem)))
    /\ gi' = [gi EXCEPT !.pc = "done",
                        !.result = <<CStr(View(AfterModel(mem, gi.info_len, retval), 3))>>]
    /\ UNCHANGED <<hold_decode, retry, pc, cmdstr, replystr, data, off, datasize,
                   retry_read, retval, ops>>

Next ==
    \/ Call
    \/ SerialFlush
    \/ WriteBlock
    \/ ReadString
    \/ CheckReply
    \/ TransactionQuit
    \/ GetInfo
    \/ GetInfoStatus
    \/ GetInfoModel

Spec == Init /\ [][Next]_vars

\* ------------------------------------------------------------------------
\* A call without a reply buffer, repeated with a buffer of the caller
\* ------------------------------------------------------------------------

\* what a transport call is to its caller: which call, with which
\* arguments, and what came back
Seen(o) == [op |-> o.op, ret |-> o.ret, bytes |-> o.bytes, cap |-> o.cap]

\* the transport gives the repeated call what it gave the first one, as
\* long as the first one got that far
Replayed(q) ==
    (first # <<>> /\ Len(q) <= Len(first[1].ops)) =>
        Seen(q[Len(q)]) = Seen(first[1].ops[Len(q)])

\* lines 95-106: the same cmdstr and replystr as the call that has just
\* returned, which had data = NULL and datasize = NULL, now with a zeroed
\* buffer of BUFSZ bytes and *datasize = BUFSZ
CallAgain ==
    /\ pc = "returned"
    /\ gi.pc = "none"
    /\ first = <<>>
    /\ data \in {"NULL", "replybuf"}
    /\ first' = <<[retval |-> retval, ops |-> ops]>>
    /\ Enter(cmdstr, replystr, "caller", 0, BUFSZ, Fill(NUL))
    /\ UNCHANGED <<oob, gi>>

FlushAgain == SerialFlush /\ Replayed(ops')

WriteAgain == WriteBlock /\ Replayed(ops')

ReadAgain == ReadString /\ Replayed(ops')

NextTwin ==
    \/ Call
    \/ CallAgain
    \/ FlushAgain
    \/ WriteAgain
    \/ ReadAgain
    \/ CheckReply
    \/ TransactionQuit

SpecTwin == Init /\ [][NextTwin]_vars

\* ------------------------------------------------------------------------
\* Vocabulary of the properties
\* ------------------------------------------------------------------------

Range(q) == {q[i] : i \in DOMAIN q}

ReadIdx == {i \in DOMAIN ops : ops[i].op = "read"}
FlushIdx == {i \in DOMAIN ops : ops[i].op = "flush"}

\* the call is over: retval is what it returns
Returned == pc = "returned"

\* every attempt so far got as far as its read
NoWriteFailed == \A i \in DOMAIN ops : ops[i].op = "write" => ops[i].ret = RIG_OK

\* the string the reply is to the code: the bytes up to the first NUL
ReplyString(b) == CStr(b)

\* a non-empty reply whose last character is not the delimiter
Unterminated(b) ==
    /\ Len(ReplyString(b)) > 0
    /\ ReplyString(b)[Len(ReplyString(b))] # CR

Acks == {OK_EOM, NG_EOM, ORER_EOM, ERR_EOM}

\* a delimiter-terminated text reply that is none of OK, NG, ORER, ERR
DataReply(b) ==
    /\ Len(b) > 0
    /\ NUL \notin Range(b)
    /\ b[Len(b)] = CR
    /\ b \notin Acks

\* read i stored exactly the bytes b
ReadGot(i, b) == ops[i].op = "read" /\ ops[i].ret >= 0 /\ ops[i].bytes = b

\* transport call i ended the call with return value r: nothing touched
\* the transport after it and, once the reply is checked, the call returns r
EndsCallWith(i, r) ==
    /\ i = Len(ops)
    /\ pc \in {"check", "transaction_quit", "returned"}
    /\ pc # "check" => retval = r

\* the prefix a reply is compared with: replystr, or cmdstr without one
Expected == IF replystr # NULL THEN replystr ELSE cmdstr

\* the first character of the reply, and the second when the expected prefix
\* has one, are those of the expected prefix
HasExpected == Expected # NULL /\ Len(Expected[1]) > 0

MatchesExpected(b) ==
    /\ HasExpected
    /\ b[1] = Expected[1][1]
    /\ Len(Expected[1]) >= 2 => (Len(b) >= 2 /\ b[2] = Expected[1][2])

\* read i stored a data reply
ReadGotData(i) == ops[i].op = "read" /\ ops[i].ret >= 0 /\ DataReply(ops[i].bytes)

\* the capacity the caller handed in: BUFSZ/2 from uniden_digital_get_info,
\* BUFSZ otherwise (the caller's buffer or the scratch buffer)
EntryCap == IF data = "infobuf" THEN InfoCap ELSE BUFSZ

\* the call is between its entry and its return
InCall == pc \in {"transaction_write", "write", "read", "check", "transaction_quit"}

\* the call sent a squelch command and expects a signed number
SquelchCall ==
    /\ cmdstr # NULL /\ SubSeq(cmdstr[1], 1, 2) = <<"S", "Q">>
    /\ replystr # NULL /\ replystr[1][1] \in {"+", "-"}

\* ------------------------------------------------------------------------
\* Properties
\* ------------------------------------------------------------------------

\* C1: whenever uniden_digital_transaction has returned, whatever the
\* outcome, hold_decode is 0 (and it is 0 before any call).
C1_HoldDecodeClearOnReturn ==
    pc \in {"idle", "returned"} => hold_decode = 0

\* C1 witness: a call that used up its retries on read failures and
\* returned the error has left hold_decode at 0.
C1_Witness ==
    /\ Returned /\ retval = -RIG_ETIMEOUT /\ retry_read = MaxRetry + 1
    /\ hold_decode = 0

\* C2: a read that stores exactly "OK\r" ends the call with RIG_OK: no
\* flush, write or read follows it and the call returns success.
C2_OkReplySucceeds ==
    \A i \in DOMAIN ops : ReadGot(i, OK_EOM) => EndsCallWith(i, RIG_OK)

\* C3: a read that stores exactly "ERR\r" ends the call with -RIG_EINVAL,
\* without a retry, whatever the command.
C3_ErrReplyIsInvalidArgument ==
    \A i \in DOMAIN ops : ReadGot(i, ERR_EOM) => EndsCallWith(i, -RIG_EINVAL)

\* C4: a read that stores exactly "NG\r" or "ORER\r" ends the call with
\* -RIG_EPROTO, without a retry, whatever the command.
C4_NgReplyIsProtocolError ==
    \A i \in DOMAIN ops :
        (ReadGot(i, NG_EOM) \/ ReadGot(i, ORER_EOM)) => EndsCallWith(i, -RIG_EPROTO)

\* C5: a delimiter-terminated data reply whose first one or two characters
\* match the expected prefix ends the call with RIG_OK, and the buffer then
\* holds the reply without its trailing delimiter.
C5_DataReplyStripped ==
    \A i \in DOMAIN ops :
        (ReadGotData(i) /\ MatchesExpected(ops[i].bytes)) =>
            /\ EndsCallWith(i, RIG_OK)
            /\ pc # "check" =>
                  CStr(View(mem, off)) = SubSeq(ops[i].bytes, 1, Len(ops[i].bytes) - 1)

\* C6: if every attempt of a call reads a non-empty reply whose last
\* character is not the delimiter, the call makes exactly retry+1 attempts
\* (retry retries) and returns -RIG_EPROTO.
C6_FramingRetriedToBudget ==
    (/\ Returned /\ NoWriteFailed
     /\ \A i \in ReadIdx : ops[i].ret >= 0 /\ Unterminated(ops[i].bytes)) =>
        /\ retval = -RIG_EPROTO
        /\ Cardinality(ReadIdx) = retry + 1
        /\ Cardinality(FlushIdx) = retry + 1

\* C6 witness: a call with the largest budget has returned after nothing
\* but unterminated replies.
C6_Witness ==
    /\ Returned /\ NoWriteFailed /\ retry = MaxRetry
    /\ \A i \in ReadIdx : ops[i].ret >= 0 /\ Unterminated(ops[i].bytes)
    /\ Cardinality(ReadIdx) = MaxRetry + 1
    /\ retval = -RIG_EPROTO

\* C7: a data reply that differs from the expected prefix in its first
\* character (or its second, when the prefix has one) never ends the call
\* with success: either a retry follows it, or the budget is used up and
\* the call returns -RIG_EPROTO.  (The squelch exception of C8 aside.)
C7_MismatchNeverAccepted ==
    \A i \in DOMAIN ops :
        (/\ ReadGotData(i) /\ HasExpected /\ ~MatchesExpected(ops[i].bytes)
         /\ ~SquelchCall
         /\ i = Len(ops) /\ pc \in {"transaction_quit", "returned"}) =>
            retval = -RIG_EPROTO /\ retry_read = retry + 1

\* C8: in a call whose command begins with "SQ" and whose expected prefix
\* begins with '+' or '-', a data reply ends the call with RIG_OK: no
\* retry follows it, whatever its leading characters are.
C8_SquelchAccepted ==
    \A i \in DOMAIN ops :
        (ReadGotData(i) /\ SquelchCall) => EndsCallWith(i, RIG_OK)

\* C8 witness: a squelch call has returned RIG_OK on a reply that does not
\* start with the expected prefix.
C8_Witness ==
    /\ Returned /\ SquelchCall /\ Len(ops) > 0
    /\ ReadGot(Len(ops), <<"X", "Y", CR>>)
    /\ ~MatchesExpected(ops[Len(ops)].bytes)
    /\ retval = RIG_OK

\* C9: a failed write_block is the last transport call of the call: it
\* follows the flush of its attempt, no read or further attempt follows
\* it, the call returns the write's error, and retry_read still counts
\* only the retries made before it.
C9_WriteFailureIsFatal ==
    \A i \in DOMAIN ops :
        (ops[i].op = "write" /\ ops[i].ret # RIG_OK) =>
            /\ i = Len(ops)
            /\ pc \in {"transaction_quit", "returned"}
            /\ retval = ops[i].ret
            /\ i > 1 /\ ops[i - 1].op = "flush"
            /\ retry_read = Cardinality(FlushIdx) - 1

\* C9 witness: a call has returned the write error of its last permitted
\* retry.
C9_Witness ==
    /\ Returned /\ Len(ops) > 0
    /\ ops[Len(ops)].op = "write" /\ ops[Len(ops)].ret = -RIG_EIO
    /\ retval = -RIG_EIO
    /\ retry_read = MaxRetry /\ Cardinality(FlushIdx) = MaxRetry + 1

\* C10: if every attempt of a call ends in a failed read, the call issues
\* exactly retry+1 reads and returns the error of the last one, which is
\* negative and is not -RIG_EPROTO.
C10_ReadFailuresExhaust ==
    (/\ Returned /\ NoWriteFailed
     /\ \A i \in ReadIdx : ops[i].ret < 0) =>
        /\ Cardinality(ReadIdx) = retry + 1
        /\ ops[Len(ops)].op = "read"
        /\ retval = ops[Len(ops)].ret
        /\ retval \in {-RIG_ETIMEOUT, -RIG_EIO}

\* C10 witness: with the largest budget, reads failed with an I/O error and
\* then with a timeout, and the call returned the timeout.
C10_Witness ==
    /\ Returned /\ NoWriteFailed /\ retry = MaxRetry
    /\ \A i \in ReadIdx : ops[i].ret < 0
    /\ \E i \in ReadIdx : ops[i].ret = -RIG_EIO
    /\ Cardinality(ReadIdx) = MaxRetry + 1
    /\ retval = -RIG_ETIMEOUT

\* C11: whatever mix of read failures and missing terminators a call meets,
\* it never starts more than retry+1 attempts: at most retry+1 flushes and
\* reads, and no new attempt is pending once retry+1 have been made.
C11_RetriesBounded ==
    /\ Cardinality(FlushIdx) <= retry + 1
    /\ Cardinality(ReadIdx) <= retry + 1
    /\ pc = "transaction_write" => Cardinality(FlushIdx) <= retry
    /\ InCall => retry_read <= retry + 1

\* C11 witness: a call with the largest budget met a failed read and an
\* unterminated reply, made MaxRetry+1 attempts and returned.
C11_Witness ==
    /\ Returned /\ retry = MaxRetry
    /\ Cardinality(FlushIdx) = MaxRetry + 1
    /\ \E i \in ReadIdx : ops[i].ret < 0
    /\ \E i \in ReadIdx : ops[i].ret >= 0 /\ Unterminated(ops[i].bytes)

\* C16: hold_decode was 1 during every flush, write and read of the call,
\* and it is 1 from the entry of the call to its transaction_quit.
C16_HoldDecodeSetDuringTransport ==
    /\ \A i \in DOMAIN ops : ops[i].hold = 1
    /\ InCall => hold_decode = 1

\* C16 witness: a second retry is reading, and the flag is still set.
C16_Witness ==
    /\ pc = "check" /\ Cardinality(ReadIdx) = 3
    /\ \A i \in DOMAIN ops : ops[i].hold = 1
    /\ hold_decode = 1

\* C17: the transport calls of a call come in attempts: a flush, then the
\* write of the whole command when there is one, then the read.  Every
\* read directly follows the successful write of cmdstr, which directly
\* follows a flush (or follows the flush itself without a command).
C17_FlushWriteReadOrder ==
    /\ Len(ops) > 0 => ops[1].op = "flush"
    /\ \A i \in DOMAIN ops :
          /\ ops[i].op = "write" => (i > 1 /\ ops[i - 1].op = "flush"
                                     /\ cmdstr # NULL /\ ops[i].bytes = cmdstr[1])
          /\ ops[i].op = "read" =>
                IF cmdstr # NULL
                THEN i > 2 /\ ops[i - 1].op = "write" /\ ops[i - 1].ret = RIG_OK
                     /\ ops[i - 1].bytes = cmdstr[1]
                ELSE i > 1 /\ ops[i - 1].op = "flush"
          /\ (ops[i].op = "flush" /\ i > 1) => ops[i - 1].op = "read"

\* C17 witness: a call with a command is in its third attempt, after a
\* failed read and an unterminated reply, each behind flush and write.
C17_Witness ==
    /\ cmdstr # NULL /\ Len(ops) = 9 /\ ops[9].op = "read"
    /\ ops[3].ret < 0
    /\ ops[6].ret >= 0 /\ Unterminated(ops[6].bytes)
    /\ ops[7].op = "flush" /\ ops[8].op = "write"

\* C18: every read of a call is issued with the capacity the caller handed
\* in, on the first attempt and on every retry.
C18_RetriesKeepCapacity ==
    \A i \in ReadIdx : ops[i].cap = EntryCap

\* C19: when the terminator check runs, the string in the buffer is not
\* empty, so the index strlen(data)-1 is not -1.
C19_TerminatorIndexInBuffer ==
    pc = "check" => Strlen(View(mem, off)) > 0

\* the status transaction of uniden_digital_get_info is over: what it
\* returned, the length it left in info_len and the reply in infobuf
StatusDone == gi.pc \in {"mdl", "done"} /\ Len(gi.sts) = 1

\* the status transaction succeeded and left 4 bytes or more
StatusUsable == StatusDone /\ gi.sts[1].ret = RIG_OK /\ gi.sts[1].len >= 4

\* uniden_digital_get_info has returned after its model transaction
ModelDone == gi.pc = "done" /\ StatusUsable

\* the reply the model transaction read last
ModelReplyRead ==
    IF Len(ops) > 0 /\ ops[Len(ops)].op = "read" /\ ops[Len(ops)].ret >= 0
    THEN ops[Len(ops)].bytes ELSE <<>>

\* a reply without its trailing delimiter
Body(b) == SubSeq(b, 1, Len(b) - 1)

\* a reply without its first 3 characters
SkipLead(b) == SubSeq(b, 4, Len(b))

\* C12: when both transactions succeed, the result is the status reply
\* without its 3-character lead-in and its delimiter, then "\n ", then the
\* model reply without its delimiter: "BC250D,0000000000,104\n VR1.00" for
\* the replies "SI BC250D,0000000000,104\r" and "VR1.00\r".
C12_InfoJoinsStatusAndModel ==
    (ModelDone /\ retval = RIG_OK /\ DataReply(gi.sts[1].reply)
               /\ DataReply(ModelReplyRead)) =>
        /\ gi.result = <<SkipLead(Body(gi.sts[1].reply)) \o <<LF, SP>>
                           \o Body(ModelReplyRead)>>
        /\ (gi.sts[1].reply = StatusReply /\ ModelReplyRead = ModelReply) =>
              gi.result = << <<"B","C","2","5","0","D",",","0","0","0","0","0",
                               "0","0","0","0","0",",","1","0","4",LF,SP,
                               "V","R","1",".","0","0">> >>

\* C13: when the status transaction succeeds with at least 4 bytes and the
\* model transaction fails, the result is a string, and it is the status
\* reply without its 3-character lead-in and without its delimiter.
C13_InfoWithoutModel ==
    (ModelDone /\ retval # RIG_OK /\ DataReply(gi.sts[1].reply)) =>
        /\ gi.result # NULL
        /\ gi.result = <<SkipLead(Body(gi.sts[1].reply))>>

\* C14: when the status transaction returns an error or fewer than 4
\* bytes, uniden_digital_get_info returns NULL; and the model command is
\* written only after a status transaction that succeeded with 4 bytes or
\* more.
C14_NoInfoWithoutStatus ==
    /\ (gi.pc = "done" /\ ~StatusUsable) => gi.result = NULL
    /\ (gi.pc # "none" /\ \E i \in DOMAIN ops : ops[i].bytes = MDL_EOM) => StatusUsable

\* C14 witness: the status transaction returned RIG_OK with a 3-byte
\* reply, and uniden_digital_get_info returned NULL without a model
\* command; and a failed status transaction did the same.
C14_Witness ==
    /\ gi.pc = "done" /\ gi.result = NULL
    /\ gi.sts[1].ret = RIG_OK /\ gi.sts[1].len = 3
    /\ \A i \in DOMAIN ops : ops[i].bytes # MDL_EOM
    /\ \E i \in DOMAIN ops : ops[i].bytes = STS_EOM

\* C20: during uniden_digital_get_info nothing is written or handed out
\* beyond infobuf: the status length is at most BUFSZ/2, the region of the
\* model transaction ends inside the buffer, and the writes at info_len
\* and info_len+1 are below BUFSZ.
C20_InfoBufferBounds ==
    gi.pc # "none" =>
        /\ ~oob
        /\ off + datasize <= BUFSZ
        /\ StatusDone => gi.sts[1].len <= BUFSZ \div 2
        /\ gi.pc = "mdl" => (off = gi.info_len /\ off + EntryCap <= BUFSZ)
        /\ StatusUsable => gi.info_len + 1 < BUFSZ

\* C20 witness: both transactions read the longest reply their capacity
\* allows, and uniden_digital_get_info returned its string.
C20_Witness ==
    /\ ModelDone /\ retval = RIG_OK
    /\ gi.sts[1].reply = FullReply /\ ModelReplyRead = FullReply
    /\ gi.info_len = BUFSZ \div 2 - 1
    /\ gi.result # NULL
    /\ ~oob

\* C15: a call without a reply buffer and the same call with a zeroed
\* buffer of BUFSZ bytes, given the same transport results, make the same
\* flush, write and read calls and return the same code.
C15_ScratchAsCallerBuffer ==
    (first # <<>> /\ Returned) =>
        /\ retval = first[1].retval
        /\ Len(ops) = Len(first[1].ops)
        /\ \A i \in DOMAIN ops : Seen(ops[i]) = Seen(first[1].ops[i])

====
